---- MODULE Spec2Model ----
(***************************************************************************)
(* A model of vyxal/LazyList.py: the LazyList class, its iterator          *)
(* protocol (itertools.tee clones, the join_with generator, the generators *)
(* made by filter, reversed and the unbounded slice) and the operations    *)
(* built on them.  The heap of Python iterator objects is the variable it, *)
(* the LazyList objects are the variable ll; an operator named after a     *)
(* method takes the heap and returns the heap after the call together with *)
(* the call's outcome.                                                     *)
(***************************************************************************)
EXTENDS Integers, Sequences, FiniteSets, TLC

\* ---- bounds of the model ----
MaxLen == 3         \* longest container a LazyList is built from
MaxVal == 2         \* element values are 1..MaxVal
MaxIt == 24         \* iterator objects alive at once
MaxHandles == 2     \* iterations the caller holds at once
MaxGen == 4         \* most elements (cached and not) of a list an operation may start from
MaxIdx == 4         \* largest index passed to get / set
MaxShort == 2       \* longest container where assignments and iterations interleave
MaxWrites == 1      \* assignments l[i] = v in a behaviour
MaxNegative == 2    \* negative positions l[-k] in a behaviour

VARIABLES ll, it, hs, last, elems, used, made

vars == <<ll, it, hs, last, elems, used, made>>

\* ---- Python values -------------------------------------------------------

\* simplify (lines 48-54) on the element values of the model, native ints
simplify(v) == v

RECURSIVE simplifyAll(_)
simplifyAll(s) == IF s = <<>> THEN <<>> ELSE <<simplify(Head(s))>> \o simplifyAll(Tail(s))

\* a Python value as vyxalify tells values apart: its type, for a number its
\* value num/den in lowest terms, for a container its items
PyValue(kind, num, den, items) == [kind |-> kind, num |-> num, den |-> den, items |-> items]

\* sympy.Rational(str(float(value))) (line 22): sympy makes a Rational with
\* denominator 1 an Integer
SympyRational(num, den) ==
    IF den = 1 THEN PyValue("Integer", num, 1, <<>>) ELSE PyValue("Rational", num, den, <<>>)

\* vyxalify (lines 16-27); map(vyxalify, value) on a value that is not iterable
\* raises TypeError, here a value of its own kind
RECURSIVE vyxalify(_)
vyxalify(value) ==
    CASE value.kind = "Integer" -> PyValue("int", value.num, 1, <<>>)
      [] value.kind \in {"factorial", "Mul"} -> vyxalify(SympyRational(value.num, value.den))
      [] value.kind \in {"int", "Rational", "str", "list", "LazyList"} -> value
      [] value.kind \in {"tuple", "generator"} ->
           PyValue("LazyList", 0, 1, [k \in DOMAIN value.items |-> vyxalify(value.items[k])])
      [] OTHER -> PyValue("TypeError", 0, 1, <<>>)

\* ---- the heap of iterator objects ----------------------------------------

\* an argument of a generator: a list, an iterator object or a LazyList
NoArg == [t |-> "none", data |-> <<>>, id |-> 0]
SeqArg(s) == [t |-> "seq", data |-> s, id |-> 0]
ItArg(i) == [t |-> "it", data |-> <<>>, id |-> i]
LLArg(l) == [t |-> "ll", data |-> <<>>, id |-> l]

Blank == [kind |-> "none", data |-> <<>>, pos |-> 0, ref |-> 0, ph |-> 0,
          lhs |-> NoArg, rhs |-> NoArg, self |-> 0, a1 |-> 0, a2 |-> 0]

\* iter(list): a list iterator
ListIterator(s) == [Blank EXCEPT !.kind = "list", !.data = s]
\* the buffer two or more tee objects share, fed from iterator src
TeeData(src) == [Blank EXCEPT !.kind = "teedata", !.ref = src]
\* a tee object: a cursor into a tee buffer
TeeObject(d, p) == [Blank EXCEPT !.kind = "tee", !.ref = d, !.pos = p]
\* an unstarted join_with(lhs, rhs) generator
JoinWithGen(lhs, rhs) == [Blank EXCEPT !.kind = "join_with", !.lhs = lhs, !.rhs = rhs]
\* an unstarted gen() generator of filter
FilterGen(l, fn) == [Blank EXCEPT !.kind = "filter", !.self = l, !.a1 = fn]
\* an unstarted infinite_index() generator of the unbounded slice
InfiniteIndexGen(l, start, step) ==
    [Blank EXCEPT !.kind = "infinite_index", !.self = l, !.a1 = start, !.a2 = step]
\* a generator that has returned: its frame and what it referred to are released
Finished == [Blank EXCEPT !.kind = "finished"]
\* an unstarted temp() generator of reversed
ReversedGen(l) == [Blank EXCEPT !.kind = "reversed", !.self = l]

Alloc(w, rec) == [w |-> [w EXCEPT !.it = Append(@, rec)], id |-> Len(w.it) + 1]

Yield(w, v) == [w |-> w, st |-> "val", v |-> v]
Stop(w) == [w |-> w, st |-> "stop", v |-> 0]
Raise(w) == [w |-> w, st |-> "err", v |-> 0]

\* the predicates fn that filter is called with
Pred(fn, v) == CASE fn = 1 -> v % 2 = 1
                 [] fn = 2 -> v > 1
                 [] OTHER -> TRUE

\* the k-th value (k = 0, 1, ...) of the producers infinite LazyLists are built from
ProducerValue(shape, k) == CASE shape = 1 -> k + 1
                             [] shape = 2 -> 2 * k
                             [] shape = 3 -> k \div 2
                             [] OTHER -> k - 2
\* an unstarted producer
ProducerGen(shape) == [Blank EXCEPT !.kind = "producer", !.a1 = shape]

\* list[start::step] for start >= 0, step >= 1
PySlice(s, start, step) ==
    LET n == IF start >= Len(s) THEN 0 ELSE ((Len(s) - start - 1) \div step) + 1
    IN [k \in 1..n |-> s[start + (k - 1) * step + 1]]

\* list[::-1]
PyReverse(s) == [k \in 1..Len(s) |-> s[Len(s) - k + 1]]

\* range(start, stop, step) as a list, step # 0
PyRange(start, stop, step) ==
    LET n == IF step > 0
             THEN (IF stop > start THEN ((stop - start - 1) \div step) + 1 ELSE 0)
             ELSE (IF start > stop THEN ((start - stop - 1) \div (0 - step)) + 1 ELSE 0)
    IN [k \in 1..n |-> start + (k - 1) * step]

\* itertools.tee(iterator) on an iterator that is not a tee object: a new buffer
\* d and two cursors into it
TeeNew(d) == [w |-> [d.w EXCEPT !.it = @ \o <<TeeObject(d.id, 0), TeeObject(d.id, 0)>>],
              c0 |-> d.id + 1, c1 |-> d.id + 2]

\* itertools.tee(iterator) on a tee object: the object itself and a copy c of it
TeeCopy(c, id) == [w |-> c.w, c0 |-> id, c1 |-> c.id]

\* itertools.tee(iterator): a tee object is copied, another iterator gets a new buffer
Tee(w, id) ==
    IF w.it[id].kind = "tee"
    THEN TeeCopy(Alloc(w, TeeObject(w.it[id].ref, w.it[id].pos)), id)
    ELSE TeeNew(Alloc(w, TeeData(id)))

\* __iter__ handing out raw_object itself instead of a tee clone
LLIterShared(w, l) ==
    Alloc(w, JoinWithGen(SeqArg(w.ll[l].generated), ItArg(w.ll[l].raw_object)))

\* __iter__ leaving the cache out, as __add__ does
LLIterNoCache(w, l) ==
    LET t == Tee(w, w.ll[l].raw_object)
        w2 == [t.w EXCEPT !.ll[l].raw_object = t.c0]
    IN Alloc(w2, JoinWithGen(SeqArg(<<>>), ItArg(t.c1)))

\* lines 135-136 of __iter__ on the clones t that line 134 made
LLIterJoin(t, l) ==
    Alloc([t.w EXCEPT !.ll[l].raw_object = t.c0],
          JoinWithGen(SeqArg(t.w.ll[l].generated), ItArg(t.c1)))

\* LazyList.__iter__ (lines 133-136)
LLIter(w, l) == LLIterJoin(Tee(w, w.ll[l].raw_object), l)

\* iter(x) as the for statement calls it
IterOf(w, x) ==
    CASE x.t = "seq" -> Alloc(w, ListIterator(x.data))
      [] x.t = "it" -> [w |-> w, id |-> x.id]
      [] OTHER -> LLIter(w, x.id)

RECURSIVE NextIt(_, _), Drain(_, _), listify(_, _)

\* the list a drained iterator gave, with the value v before it
DrainCons(v, d) == [w |-> d.w, data |-> <<v>> \o d.data]

\* list(iterator) after one next(iterator) with outcome s
DrainStep(s, id) ==
    IF s.st = "val" THEN DrainCons(s.v, Drain(s.w, id)) ELSE [w |-> s.w, data |-> <<>>]

\* list(iterator): the values left in iterator id, pulled to exhaustion
Drain(w, id) == DrainStep(NextIt(w, id), id)

\* lines 166-167 of listify: raw_object is a new iterator over temp, the cache is empty
listifyStore(w, l, temp) ==
    [w |-> [w EXCEPT !.it = Append(@, ListIterator(temp)),
                     !.ll[l].raw_object = Len(w.it) + 1,
                     !.ll[l].generated = <<>>],
     data |-> temp]

\* line 165 of listify on the drained raw_object d
listifyTemp(d, l) == listifyStore(d.w, l, d.w.ll[l].generated \o simplifyAll(d.data))

\* listify forgetting the cache: temp is the simplified raw_object alone
listifyNoCache(w, l) ==
    LET d == Drain(w, w.ll[l].raw_object)
        temp == simplifyAll(d.data)
        a == Alloc(d.w, ListIterator(temp))
    IN [w |-> [a.w EXCEPT !.ll[l].raw_object = a.id, !.ll[l].generated = <<>>],
        data |-> temp]

\* LazyList.listify (lines 164-168)
listify(w, l) == listifyTemp(Drain(w, w.ll[l].raw_object), l)

\* a generator frame entering its for loop over the iterator i
Enter(i, id, ph) == NextIt([i.w EXCEPT !.it[id].ph = ph, !.it[id].ref = i.id], id)

\* a generator frame that has its values in a list: yield from that list
YieldFrom(w, id, data) == NextIt([w EXCEPT !.it[id].ph = 1, !.it[id].data = data], id)

\* the next value of a list held by the iterator object id
NextOfList(w, id) ==
    IF w.it[id].pos < Len(w.it[id].data)
    THEN Yield([w EXCEPT !.it[id].pos = @ + 1], w.it[id].data[w.it[id].pos + 1])
    ELSE IF w.it[id].kind = "list" THEN Stop(w) ELSE Stop([w EXCEPT !.it[id] = Finished])

\* a tee object past its buffer: the outcome s of the source goes into the buffer
TeePull(s, id) ==
    IF s.st = "val"
    THEN Yield([s.w EXCEPT !.it[s.w.it[id].ref].data = Append(@, s.v),
                           !.it[id].pos = @ + 1], s.v)
    ELSE s

\* next() on a tee object
NextTee(w, id) ==
    IF w.it[id].pos < Len(w.it[w.it[id].ref].data)
    THEN Yield([w EXCEPT !.it[id].pos = @ + 1], w.it[w.it[id].ref].data[w.it[id].pos + 1])
    ELSE TeePull(NextIt(w, w.it[w.it[id].ref].ref), id)

\* join_with in its first loop (lines 31-32), lhs having answered s
JoinLhs(s, id) ==
    IF s.st = "val" THEN s ELSE Enter(IterOf(s.w, s.w.it[id].rhs), id, 2)

\* join_with in its second loop (lines 34-35), rhs having answered s
JoinRhs(s, id) ==
    IF s.st = "val" THEN s ELSE Stop([s.w EXCEPT !.it[id] = Finished])

\* next() on a join_with generator (lines 30-36)
NextJoinWith(w, id) ==
    CASE w.it[id].ph = 0 -> Enter(IterOf(w, w.it[id].lhs), id, 1)
      [] w.it[id].ph = 1 -> JoinLhs(NextIt(w, w.it[id].ref), id)
      [] w.it[id].ph = 2 -> JoinRhs(NextIt(w, w.it[id].ref), id)
      [] OTHER -> Stop(w)

\* gen() of filter in its loop (lines 158-160), self having answered s
FilterStep(s, id) ==
    IF s.st = "val"
    THEN (IF Pred(s.w.it[id].a1, s.v) THEN s ELSE NextIt(s.w, id))
    ELSE Stop([s.w EXCEPT !.it[id] = Finished])

\* next() on the gen() generator of filter (lines 157-160)
NextFilter(w, id) ==
    CASE w.it[id].ph = 0 -> Enter(LLIter(w, w.it[id].self), id, 1)
      [] w.it[id].ph = 1 -> FilterStep(NextIt(w, w.it[id].ref), id)
      [] OTHER -> Stop(w)

\* line 97 of infinite_index after the listify() of line 96 returned m
InfiniteIndexSlice(m, id) ==
    YieldFrom(m.w, id, PySlice(m.w.ll[m.w.it[id].self].generated,
                               m.w.it[id].a1, m.w.it[id].a2))

\* next() on the infinite_index() generator (lines 95-97)
NextInfiniteIndex(w, id) ==
    CASE w.it[id].ph = 0 -> InfiniteIndexSlice(listify(w, w.it[id].self), id)
      [] w.it[id].ph = 1 -> NextOfList(w, id)
      [] OTHER -> Stop(w)

\* lines 198-199 of reversed: the new cache, then its elements backwards
ReversedYield(w, id) == YieldFrom(w, id, PyReverse(w.ll[w.it[id].self].generated))

\* line 197 of reversed leaving the cache as it is: only what was cached is reversed
ReversedCacheOnly(d, id) == ReversedYield(d.w, id)

\* line 197 of reversed, the drained clone d appended to the cache
ReversedAppend(d, id) ==
    ReversedYield([d.w EXCEPT !.ll[d.w.it[id].self].generated = @ \o d.data], id)

\* line 197 of reversed on the clones t of raw_object
ReversedDrain(t, id) == ReversedAppend(Drain(t.w, t.c1), id)

\* next() on the temp() generator of reversed (lines 196-199)
NextReversed(w, id) ==
    CASE w.it[id].ph = 0 -> ReversedDrain(Tee(w, w.ll[w.it[id].self].raw_object), id)
      [] w.it[id].ph = 1 -> NextOfList(w, id)
      [] OTHER -> Stop(w)

\* next(iterator) on the iterator object id
NextIt(w, id) ==
    CASE w.it[id].kind = "list" -> NextOfList(w, id)
      [] w.it[id].kind = "tee" -> NextTee(w, id)
      [] w.it[id].kind = "join_with" -> NextJoinWith(w, id)
      [] w.it[id].kind = "filter" -> NextFilter(w, id)
      [] w.it[id].kind = "infinite_index" -> NextInfiniteIndex(w, id)
      [] w.it[id].kind = "reversed" -> NextReversed(w, id)
      [] w.it[id].kind = "producer" ->   \* a producer function that never returns
           Yield([w EXCEPT !.it[id].pos = @ + 1], ProducerValue(w.it[id].a1, w.it[id].pos))
      [] OTHER -> Stop(w)

\* ---- LazyList -------------------------------------------------------------

\* LazyList.__init__ (lines 124-131) on an iterator object
NewLazyList(raw, isinf) == [raw_object |-> raw, generated |-> <<>>, infinite |-> isinf]

AllocLL(w, rec) == [w |-> [w EXCEPT !.ll = Append(@, rec)], id |-> Len(w.ll) + 1]

\* the lazylist decorator (lines 39-45) on the generator g that was just made
Wrap(g) == AllocLL(g.w, NewLazyList(g.id, FALSE))

\* line 143 of __next__: the value that raw_object gave goes into the cache
LLNextCache(s, l) ==
    IF s.st = "val" THEN Yield([s.w EXCEPT !.ll[l].generated = Append(@, s.v)], s.v) ELSE s

\* LazyList.__next__ (lines 141-144)
LLNext(w, l) == LLNextCache(NextIt(w, w.ll[l].raw_object), l)

\* list(self) once iter(self) has returned i: len(self), then the iterator pulled dry
PyListHint(i, l) == Drain(listify(i.w, l).w, i.id)

\* list(self) (line 109): list() takes iter(self), then asks len(self) for a size
\* hint, which is __len__ and so listify, and only then pulls the iterator dry
PyList(w, l) == PyListHint(LLIter(w, l), l)

RECURSIVE Force(_, _, _)

\* lines 116-118: the loop goes on after a value and breaks at StopIteration
ForceStep(s, l, n) == IF s.st = "val" THEN Force(s.w, l, n) ELSE s.w

\* the while loop of __getitem__ (lines 114-118)
Force(w, l, n) == IF Len(w.ll[l].generated) < n THEN ForceStep(LLNext(w, l), l, n) ELSE w

\* lines 119-122 of __getitem__: the position wraps around the cache
LLGetItemWrap(w, l, position) ==
    IF w.ll[l].generated # <<>>
    THEN Yield(w, w.ll[l].generated[(position % Len(w.ll[l].generated)) + 1])
    ELSE Yield(w, 0)

\* line 110 counting the negative position from the front of the cache
LLGetItemFromFront(w, l, position) ==
    IF 0 - position <= Len(w.ll[l].generated)
    THEN Yield(w, w.ll[l].generated[0 - position])
    ELSE Raise(w)

\* line 110: self.generated[position] for a negative position
LLGetItemFromEnd(w, l, position) ==
    IF 0 - position <= Len(w.ll[l].generated)
    THEN Yield(w, w.ll[l].generated[Len(w.ll[l].generated) + position + 1])
    ELSE Raise(w)

\* line 109: self.generated += list(self), the left operand read before list(self) ran
LLGetItemExtend(old, d, l, position) ==
    LLGetItemFromEnd([d.w EXCEPT !.ll[l].generated = old \o d.data], l, position)

\* __getitem__ producing one element too few before it indexes
LLGetItemShort(w, l, position) ==
    IF position < 0 THEN Raise(w)
    ELSE IF position < Len(w.ll[l].generated)
    THEN Yield(w, w.ll[l].generated[position + 1])
    ELSE LET w2 == Force(w, l, position)
             g == w2.ll[l].generated
         IN IF g # <<>> THEN Yield(w2, g[(position % Len(g)) + 1]) ELSE Yield(w2, 0)

\* __getitem__ answering the last element instead of wrapping around
LLGetItemClamp(w, l, position) ==
    IF position < 0 THEN Raise(w)
    ELSE IF position < Len(w.ll[l].generated)
    THEN Yield(w, w.ll[l].generated[position + 1])
    ELSE LET w2 == Force(w, l, position + 1)
             g == w2.ll[l].generated
         IN IF g # <<>> THEN Yield(w2, g[IF position < Len(g) THEN position + 1 ELSE Len(g)])
            ELSE Yield(w2, 0)

\* __getitem__ producing one element more than the position needs
LLGetItemEager(w, l, position) ==
    IF position < 0 THEN Raise(w)
    ELSE IF position < Len(w.ll[l].generated)
    THEN Yield(w, w.ll[l].generated[position + 1])
    ELSE LET w2 == Force(w, l, position + 2)
             g == w2.ll[l].generated
         IN IF g # <<>> THEN Yield(w2, g[(position % Len(g)) + 1]) ELSE Yield(w2, 0)

\* LazyList.__getitem__ with an integer position (lines 107-122)
LLGetItem(w, l, position) ==
    IF position < 0 THEN LLGetItemExtend(w.ll[l].generated, PyList(w, l), l, position)
    ELSE IF position < Len(w.ll[l].generated)
    THEN Yield(w, w.ll[l].generated[position + 1])
    ELSE LLGetItemWrap(Force(w, l, position + 1), l, position)

\* line 149 wrapping a position past the end around the cache, as __getitem__ does
LLSetItemWrap(w, l, position, value) ==
    IF w.ll[l].generated = <<>> \/ 0 - position > Len(w.ll[l].generated)
    THEN Raise(w)
    ELSE Yield([w EXCEPT !.ll[l].generated[(position % Len(w.ll[l].generated)) + 1] = value], 0)

\* line 149: self.generated[position] = value
LLSetItemStore(w, l, position, value) ==
    IF position >= Len(w.ll[l].generated) \/ 0 - position > Len(w.ll[l].generated)
    THEN Raise(w)
    ELSE Yield([w EXCEPT !.ll[l].generated[IF position < 0
                                           THEN Len(w.ll[l].generated) + position + 1
                                           ELSE position + 1] = value], 0)

\* LazyList.__setitem__ (lines 146-149)
LLSetItem(w, l, position, value) ==
    IF position >= Len(w.ll[l].generated)
    THEN LLSetItemStore(LLGetItem(w, l, position).w, l, position, value)
    ELSE LLSetItemStore(w, l, position, value)

\* len(m) of the list m that listify returned
LenOf(m) == Yield(m.w, Len(m.data))

\* LazyList.__len__ (lines 138-139)
LLLen(w, l) == LenOf(listify(w, l))

\* the comparison of line 83 of the list m that listify returned
EqOf(m, other) == Yield(m.w, IF m.data = simplifyAll(other) THEN 1 ELSE 0)

\* LazyList.__eq__ (lines 82-83) against a plain list
LLEq(w, l, other) == EqOf(listify(w, l), other)

RECURSIVE ContainsLoop(_, _, _, _)

\* lines 72-74: the value that next(self) gave is compared with lhs
ContainsStep(s, l, lhs) ==
    IF s.st # "val" THEN s
    ELSE IF s.v = lhs THEN Yield(s.w, 1)
    ELSE ContainsLoop(s.w, l, s.v, lhs)

\* the loop of __contains__ on an infinite LazyList (lines 71-75)
ContainsLoop(w, l, lst, lhs) ==
    IF lst <= lhs THEN ContainsStep(LLNext(w, l), l, lhs) ELSE Yield(w, 0)

RECURSIVE ScanLoop(_, _, _)

\* lines 78-79: the value the iteration gave is compared with lhs
ScanStep(s, id, lhs) ==
    IF s.st # "val" THEN Yield(s.w, 0)
    ELSE IF s.v = lhs THEN Yield(s.w, 1)
    ELSE ScanLoop(s.w, id, lhs)

\* the loop of __contains__ on a finite LazyList (lines 77-80)
ScanLoop(w, id, lhs) == ScanStep(NextIt(w, id), id, lhs)

\* the for statement of line 77 on the iterator i of self
ScanOf(i, lhs) == ScanLoop(i.w, i.id, lhs)

\* lines 66-69: the last cached value, 0 without one
LastCached(g) == IF Len(g) > 0 THEN g[Len(g)] ELSE 0

\* LazyList.__contains__ (lines 64-80)
LLContains(w, l, lhs) ==
    IF w.ll[l].infinite
    THEN ContainsLoop(w, l, LastCached(w.ll[l].generated), lhs)
    ELSE ScanOf(LLIter(w, l), lhs)

\* LazyList.__add__ (lines 58-59): the new LazyList
LLAdd(w, l, rhs) == Wrap(Alloc(w, JoinWithGen(ItArg(w.ll[l].raw_object), rhs)))

\* LazyList.filter (lines 155-162): the new LazyList
LLFilter(w, l, fn) == Wrap(Alloc(w, FilterGen(l, fn)))

\* LazyList.__getitem__ with slice(start, None, step) (lines 92-99): the new LazyList
LLSliceFrom(w, l, start, step) == Wrap(Alloc(w, InfiniteIndexGen(l, start, step)))

RECURSIVE SliceLoop(_, _, _)

\* line 105: ret.append(self.__getitem__(i)), t being the rest of the loop
SliceAppend(v, t) ==
    [w |-> t.w, st |-> t.st, data |-> IF t.st = "val" THEN <<v>> \o t.data ELSE <<>>]

\* one turn of the loop of lines 104-105, __getitem__ having answered s
SliceStep(s, l, ps) ==
    IF s.st # "val" THEN [w |-> s.w, st |-> s.st, data |-> <<>>]
    ELSE SliceAppend(s.v, SliceLoop(s.w, l, ps))

\* the for loop of the bounded slice (lines 104-105)
SliceLoop(w, l, ps) ==
    IF ps = <<>> THEN [w |-> w, st |-> "val", data |-> <<>>]
    ELSE SliceStep(LLGetItem(w, l, Head(ps)), l, Tail(ps))

\* the bounded slice leaving a negative stop as it is
LLSliceRawStop(w, l, start, stop, step) ==
    SliceLoop(w, l, PyRange(start, stop, step))

\* lines 102-105 with the len(self) of line 101 answered by the listify that returned m
SliceFromEnd(m, l, start, stop, step) ==
    SliceLoop(m.w, l, PyRange(start, Len(m.data) + stop, step))

\* LazyList.__getitem__ with slice(start, stop, step), stop an integer (lines 100-106)
LLSlice(w, l, start, stop, step) ==
    IF stop < 0
    THEN SliceFromEnd(listify(w, l), l, start, stop, step)
    ELSE SliceLoop(w, l, PyRange(start, stop, step))

\* LazyList.reversed (lines 195-201): the generator it returns
LLReversed(w, l) == Alloc(w, ReversedGen(l))

\* ---- the state and the caller's operations --------------------------------

W == [ll |-> ll, it |-> it]

\* the elements of LazyList l in heap w: the cache, then what its source still holds
Contents(w, l) == w.ll[l].generated \o Drain(w, w.ll[l].raw_object).data

Elems == 1..MaxVal
Containers == UNION {[1..n -> Elems] : n \in 0..MaxLen}

NoOp == [op |-> "none", l |-> 0, i |-> 0, j |-> 0, k |-> 0, st |-> "val", v |-> 0,
         out |-> <<>>, pre |-> <<>>]

\* what the caller has of its last operation: the arguments and the outcome
Op(name, l, args, st, v, out) ==
    [op |-> name, l |-> l, i |-> args[1], j |-> args[2], k |-> args[3], st |-> st, v |-> v,
     out |-> out, pre |-> <<>>]

\* the iterator objects that iterator object i refers to
RefsOf(r) ==
    (IF r.ref # 0 THEN {r.ref} ELSE {})
    \cup (IF r.lhs.t = "it" /\ r.ph = 0 THEN {r.lhs.id} ELSE {})
    \cup (IF r.rhs.t = "it" /\ r.ph <= 1 THEN {r.rhs.id} ELSE {})

Refs(w, i) == RefsOf(w.it[i])

RECURSIVE Reach(_, _)
Reach(w, S) ==
    IF \A i \in S : Refs(w, i) \subseteq S THEN S
    ELSE Reach(w, S \cup UNION {Refs(w, i) : i \in S})

\* The objects that are still referred to, renumbered in allocation order: an
\* iterator nothing refers to any more (the clone a finished loop used, the
\* raw_object that lines 135 and 166 replace) is freed by the interpreter.
\* what the program holds: each LazyList's raw_object, each iteration still running
Roots(w, h) == {w.ll[l].raw_object : l \in DOMAIN w.ll}
               \cup {h[k].id : k \in {k \in DOMAIN h : ~h[k].done}}

\* the place of object i among the objects live, 0 for a freed one
Renumber(live, i) == IF i \in live THEN Cardinality({j \in live : j <= i}) ELSE 0

RenumberArg(live, x) == IF x.t = "it" THEN [x EXCEPT !.id = Renumber(live, @)] ELSE x

\* the heap with the objects live alone
Compact(w, h, live) ==
    [it |-> [k \in 1..Cardinality(live) |->
                [w.it[CHOOSE i \in live : Renumber(live, i) = k]
                    EXCEPT !.ref = Renumber(live, @),
                           !.lhs = RenumberArg(live, @), !.rhs = RenumberArg(live, @)]],
     ll |-> [l \in DOMAIN w.ll |-> [w.ll[l] EXCEPT !.raw_object = Renumber(live, @)]],
     hs |-> [k \in DOMAIN h |-> [h[k] EXCEPT !.id = Renumber(live, @)]]]

Collect(w, h) == Compact(w, h, Reach(w, Roots(w, h)))

\* the state after an operation: the heap c it left
Store(c) ==
    /\ Len(c.it) <= MaxIt
    /\ ll' = c.ll
    /\ it' = c.it
    /\ hs' = c.hs

Commit(w, h) == Store(Collect(w, h))

\* the containers 1, 2, ..., n: every element tells its position
Ramps == {[k \in 1..n |-> k] : n \in 0..MaxLen}

\* how a list came to be: the operation, the list it was applied to, its arguments
How(by, src, a1, a2) == [by |-> by, src |-> src, a1 |-> a1, a2 |-> a2]

\* LazyList(d)
InitWith(d) == /\ it = <<ListIterator(d)>>
               /\ ll = <<NewLazyList(1, FALSE)>>
               /\ elems = <<d>>
               /\ hs = <<>>
               /\ last = NoOp
               /\ used = [writes |-> 0, negative |-> 0]
               /\ made = <<How("container", 0, 0, 0)>>

InitOne == \E d \in Containers : InitWith(d)

InitRamp == \E d \in Ramps : InitWith(d)

InitShort == \E d \in {r \in Ramps : Len(r) <= MaxShort} : InitWith(d)

Lists == DOMAIN ll
Finite(l) == ~ll[l].infinite
Small(l) == IF Finite(l) THEN Len(Contents(W, l)) <= MaxGen ELSE Len(ll[l].generated) <= MaxGen

\* it = iter(l), kept by the caller
Iterate(l) ==
    /\ Len(hs) < MaxHandles
    /\ Finite(l) /\ Small(l)
    /\ \E r \in {LLIter(W, l)} :
          /\ Commit(r.w, Append(hs, [id |-> r.id, of |-> l, kind |-> "iter",
                                      snap |-> Contents(W, l), exp |-> elems[l],
                                      out |-> <<>>, done |-> FALSE]))
          /\ last' = Op("iter", l, <<0, 0, 0>>, "val", 0, <<>>)
          /\ UNCHANGED <<elems, used, made>>

\* next(it) on an iterator the caller holds; the body of a reversed() generator
\* starts at its first next, and snap is what the list holds at that moment
StepIt(h) ==
    /\ ~hs[h].done
    /\ \E s \in {NextIt(W, hs[h].id)} :
          /\ Commit(s.w, [hs EXCEPT ![h].out = IF s.st = "val" THEN Append(@, s.v) ELSE @,
                                    ![h].done = (s.st # "val"),
                                    ![h].snap = IF it[hs[h].id].kind = "reversed"
                                                   /\ it[hs[h].id].ph = 0
                                                THEN Contents(W, hs[h].of) ELSE @])
          /\ last' = Op("step", hs[h].of, <<0, 0, 0>>, "val", 0, <<>>)
          /\ UNCHANGED <<elems, used, made>>

\* list(l): one fresh iteration run to its end
ListOf(l) ==
    /\ Finite(l) /\ Small(l)
    /\ \E d \in {PyList(W, l)} :
          /\ Commit(d.w, hs)
          /\ last' = Op("list", l, <<0, 0, 0>>, "val", 0, d.data)
          /\ UNCHANGED <<elems, used, made>>

\* next(l)
Advance(l) ==
    /\ Small(l)
    /\ \E s \in {LLNext(W, l)} :
          /\ Commit(s.w, hs)
          /\ last' = Op("next", l, <<0, 0, 0>>, s.st, s.v, <<>>)
          /\ UNCHANGED <<elems, used, made>>

\* l[i]
Get(l, i) ==
    /\ Small(l)
    /\ i >= 0 \/ (Finite(l) /\ used.negative < MaxNegative)
    /\ \E s \in {LLGetItem(W, l, i)} :
          /\ Commit(s.w, hs)
          /\ last' = Op("get", l, <<i, 0, 0>>, s.st, s.v, <<>>)
          /\ used' = IF i < 0 THEN [used EXCEPT !.negative = @ + 1] ELSE used
          /\ UNCHANGED <<elems, made>>

\* l[i] = v; elems keeps the value written at the place the assignment names
Set(l, i, v) ==
    /\ Small(l)
    /\ used.writes < MaxWrites
    /\ \E s \in {LLSetItem(W, l, i, v)} :
       LET p == IF i < 0 THEN Len(s.w.ll[l].generated) + i + 1 ELSE i + 1
       IN /\ Commit(s.w, hs)
          /\ last' = Op("set", l, <<i, v, 0>>, s.st, 0, <<>>)
          /\ elems' = IF s.st = "val" /\ p \in DOMAIN elems[l]
                      THEN [elems EXCEPT ![l][p] = v] ELSE elems
          /\ used' = [used EXCEPT !.writes = @ + 1]
          /\ UNCHANGED made

\* len(l)
Length(l) ==
    /\ Finite(l) /\ Small(l)
    /\ \E s \in {LLLen(W, l)} :
          /\ Commit(s.w, hs)
          /\ last' = Op("len", l, <<0, 0, 0>>, s.st, s.v, <<>>)
          /\ UNCHANGED <<elems, used, made>>

\* l == other
Equals(l, other) ==
    /\ Finite(l) /\ Small(l)
    /\ \E s \in {LLEq(W, l, other)} :
          /\ Commit(s.w, hs)
          /\ last' = Op("eq", l, <<0, 0, 0>>, s.st, s.v, other)
          /\ UNCHANGED <<elems, used, made>>

\* c = l + r
Add(l, r) ==
    /\ Len(ll) = 2
    /\ \E c \in {LLAdd(W, l, LLArg(r))} :
          /\ Commit(c.w, hs)
          /\ last' = Op("add", l, <<r, 0, 0>>, "val", c.id, <<>>)
          /\ elems' = Append(elems, elems[l] \o elems[r])
          /\ made' = Append(made, How("add", l, r, 0))
          /\ UNCHANGED used

\* f = l.filter(fn)
Filter(l, fn) ==
    /\ Len(ll) = 1
    /\ \E c \in {LLFilter(W, l, fn)} :
          /\ Commit(c.w, hs)
          /\ last' = Op("filter", l, <<fn, 0, 0>>, "val", c.id, <<>>)
          /\ elems' = Append(elems, SelectSeq(elems[l], LAMBDA v : Pred(fn, v)))
          /\ made' = Append(made, How("filter", l, fn, 0))
          /\ UNCHANGED used

\* t = l[start::step]
SliceFrom(l, start, step) ==
    /\ Len(ll) = 1
    /\ \E c \in {LLSliceFrom(W, l, start, step)} :
          /\ Commit(c.w, hs)
          /\ last' = Op("slicefrom", l, <<start, step, 0>>, "val", c.id, <<>>)
          /\ elems' = Append(elems, PySlice(elems[l], start, step))
          /\ made' = Append(made, How("slice", l, start, step))
          /\ UNCHANGED used

\* l[start:stop:step]; pre keeps the elements the list had before
Slice(l, start, stop, step) ==
    /\ Finite(l) /\ Small(l)
    /\ \E s \in {LLSlice(W, l, start, stop, step)} :
          /\ Commit(s.w, hs)
          /\ last' = [Op("slice", l, <<start, stop, step>>, s.st, 0, s.data)
                        EXCEPT !.pre = Contents(W, l)]
          /\ UNCHANGED <<elems, used, made>>

\* x in l
Contains(l, x) ==
    /\ Small(l)
    /\ \E s \in {LLContains(W, l, x)} :
          /\ Commit(s.w, hs)
          /\ last' = Op("contains", l, <<x, 0, 0>>, s.st, s.v, <<>>)
          /\ UNCHANGED <<elems, used, made>>

\* what the caller compares a list with: the elements it put there, or nothing
Others(l) == {elems[l], <<>>}

Indices == (0 - 2)..MaxIdx
Naturals0 == 0..MaxIdx
NewVals == {MaxLen + MaxVal + 1}

\* every operation on one list, iterations run to their end
NextOne ==
    \/ \E l \in Lists : ListOf(l)
    \/ \E l \in Lists : Advance(l)
    \/ \E l \in Lists, i \in Indices : Get(l, i)
    \/ \E l \in Lists, i \in Indices, v \in NewVals : Set(l, i, v)
    \/ \E l \in Lists : Length(l)
    \/ \E l \in Lists : \E other \in Others(l) : Equals(l, other)

SpecOne == InitOne /\ [][NextOne]_vars

\* fresh iterations, next and non-negative indexing only
NextRead ==
    \/ \E l \in Lists : Iterate(l)
    \/ \E h \in DOMAIN hs : StepIt(h)
    \/ \E l \in Lists : Advance(l)
    \/ \E l \in Lists, i \in Naturals0 : Get(l, i)

SpecRead == InitRamp /\ [][NextRead]_vars

\* fresh iterations, next and indexing at any position
NextIter ==
    \/ \E l \in Lists : Iterate(l)
    \/ \E h \in DOMAIN hs : StepIt(h)
    \/ \E l \in Lists : Advance(l)
    \/ \E l \in Lists, i \in Indices : Get(l, i)

SpecIter == InitRamp /\ [][NextIter]_vars

\* an assignment among iterations, indexing, len and ==
NextWrite ==
    \/ \E l \in Lists : Iterate(l)
    \/ \E h \in DOMAIN hs : StepIt(h)
    \/ \E l \in Lists, i \in 0..MaxShort : Get(l, i)
    \/ \E l \in Lists, i \in 0..MaxShort, v \in NewVals : Set(l, i, v)
    \/ \E l \in Lists : Length(l)
    \/ \E l \in Lists : \E other \in Others(l) : Equals(l, other)

SpecWrite == InitShort /\ [][NextWrite]_vars

\* lists made from a list, a filter or an unbounded slice, and their
\* iterations; bounded slices
Starts == (0 - 1)..2
Stops == (0 - 2)..(MaxLen + 1)
Steps == {1, 2, 0 - 1}
Fns == 1..3

NextDerive ==
    \/ Advance(1)
    \/ \E fn \in Fns : Filter(1, fn)
    \/ \E start \in 0..2, step \in 1..2 : SliceFrom(1, start, step)
    \/ \E l \in Lists \ {1} : Iterate(l)
    \/ \E h \in DOMAIN hs : StepIt(h)

SpecDerive == InitOne /\ [][NextDerive]_vars

NextSlice ==
    \/ Advance(1)
    \/ \E i \in Naturals0 : Get(1, i)
    \/ \E start \in Starts, stop \in Stops, step \in Steps : Slice(1, start, stop, step)

SpecSlice == InitOne /\ [][NextSlice]_vars

\* a = LazyList(da), b = LazyList(db), the elements of b apart from those of a
InitTwo ==
    /\ \E da, db \in {r \in Ramps : Len(r) <= MaxShort} :
          /\ it = <<ListIterator(da), ListIterator([k \in DOMAIN db |-> MaxLen + db[k]])>>
          /\ elems = <<da, [k \in DOMAIN db |-> MaxLen + db[k]]>>
    /\ ll = <<NewLazyList(1, FALSE), NewLazyList(2, FALSE)>>
    /\ hs = <<>>
    /\ last = NoOp
    /\ used = [writes |-> 0, negative |-> 0]
    /\ made = <<How("container", 0, 0, 0), How("container", 0, 0, 0)>>

\* a + b among indexing, iterations and len
NextTwo ==
    \/ \E l \in {1, 2} : Advance(l)
    \/ Add(1, 2)
    \/ \E l \in Lists \ {1, 2} : Iterate(l)
    \/ \E h \in DOMAIN hs : StepIt(h)
    \/ \E l \in Lists \ {1, 2} : Length(l)

SpecTwo == InitTwo /\ [][NextTwo]_vars

\* an infinite list: LazyList(producer, isinf=True)
InitInf ==
    /\ \E shape \in 1..4 : it = <<ProducerGen(shape)>>
    /\ ll = <<NewLazyList(1, TRUE)>>
    /\ elems = << <<>> >>
    /\ hs = <<>>
    /\ last = NoOp
    /\ used = [writes |-> 0, negative |-> 0]
    /\ made = <<How("producer", 0, 0, 0)>>

Targets == (0 - 2)..MaxIdx

NextInf ==
    \/ Advance(1)
    \/ \E i \in Naturals0 : Get(1, i)
    \/ \E x \in Targets : Contains(1, x)

SpecInf == InitInf /\ [][NextInf]_vars

\* for x in l: one fresh iteration run to its end, nothing else called
ForEach(l) ==
    /\ Finite(l) /\ Small(l)
    /\ \E i \in {LLIter(W, l)} : \E d \in {Drain(i.w, i.id)} :
          /\ Commit(d.w, hs)
          /\ last' = Op("for", l, <<0, 0, 0>>, "val", 0, d.data)
          /\ UNCHANGED <<elems, used, made>>

\* whole iterations and len among next, indexing at any position and assignments
NextLen ==
    \/ \E l \in Lists : ForEach(l)
    \/ \E l \in Lists : Length(l)
    \/ \E l \in Lists : Advance(l)
    \/ \E l \in Lists, i \in Indices : Get(l, i)
    \/ \E l \in Lists, i \in Indices, v \in NewVals : Set(l, i, v)

SpecLen == InitOne /\ [][NextLen]_vars

\* a finite or an infinite list under next, indexing and whole iterations
NextPull ==
    \/ Advance(1)
    \/ \E i \in Naturals0 : Get(1, i)
    \/ ForEach(1)

SpecPull == (InitOne \/ InitInf) /\ [][NextPull]_vars

\* the values a source hands out that are not all native: ints and sympy Integers
RawValues == {PyValue(kind, num, 1, <<>>) : kind \in {"int", "Integer"}, num \in 1..MaxVal}

\* LazyList(d) for a container d of such values
InitRaw == \E d \in UNION {[1..n -> RawValues] : n \in 0..MaxShort} : InitWith(d)

\* next, indexing and whole iterations; nothing that compares or converts values
NextRaw ==
    \/ Advance(1)
    \/ \E i \in Naturals0 : Get(1, i)
    \/ ForEach(1)

SpecRaw == InitRaw /\ [][NextRaw]_vars

\* the numbers vyxalify is called with: native, sympy and float, whole or halves
Numbers ==
    {PyValue(kind, num, 1, <<>>) :
        kind \in {"int", "Integer", "factorial", "Mul", "float"}, num \in 1..MaxVal}
    \cup {PyValue(kind, 1, 2, <<>>) : kind \in {"Rational", "Mul", "float"}}

\* the values vyxalify is called with: numbers, strings, and lists, LazyLists,
\* tuples and generators of them
Values ==
    Numbers \cup {PyValue("str", 0, 1, <<>>)}
    \cup {PyValue(kind, 0, 1, items) :
             kind \in {"list", "LazyList", "tuple", "generator"},
             items \in UNION {[1..n -> {v \in Numbers : v.num = 1}] : n \in 0..MaxShort}}

\* a value to call vyxalify with, no LazyList around
InitValue ==
    /\ \E value \in Values : last = [NoOp EXCEPT !.op = "value", !.out = <<value>>]
    /\ it = <<>> /\ ll = <<>> /\ elems = <<>> /\ hs = <<>> /\ made = <<>>
    /\ used = [writes |-> 0, negative |-> 0]

\* vyxalify(value), value being the input or what vyxalify returned before
Vyxalify ==
    /\ last.op \in {"value", "vyxalify"}
    /\ last.out[1].kind # "TypeError"
    /\ last' = [NoOp EXCEPT !.op = "vyxalify", !.pre = last.out,
                            !.out = <<vyxalify(last.out[1])>>]
    /\ UNCHANGED <<ll, it, hs, elems, used, made>>

SpecValue == InitValue /\ [][Vyxalify]_vars

\* r = l.reversed(), kept by the caller and not driven yet
Reversed(l) ==
    /\ Len(hs) < MaxHandles
    /\ Finite(l) /\ Small(l)
    /\ \E r \in {LLReversed(W, l)} :
          /\ Commit(r.w, Append(hs, [id |-> r.id, of |-> l, kind |-> "reversed",
                                      snap |-> <<>>, exp |-> elems[l],
                                      out |-> <<>>, done |-> FALSE]))
          /\ last' = Op("reversed", l, <<0, 0, 0>>, "val", 0, <<>>)
          /\ UNCHANGED <<elems, used, made>>

\* reversed() generators driven among next, assignments and whole iterations
NextRev ==
    \/ \E l \in Lists : Reversed(l)
    \/ \E h \in DOMAIN hs : StepIt(h)
    \/ \E l \in Lists : Advance(l)
    \/ \E l \in Lists, i \in 0..MaxShort, v \in NewVals : Set(l, i, v)
    \/ \E l \in Lists : ForEach(l)

SpecRev == InitShort /\ [][NextRev]_vars

\* ---- properties -------------------------------------------------------------

IsPrefix(p, s) == Len(p) <= Len(s) /\ \A k \in 1..Len(p) : p[k] = s[k]

\* C1: every iteration the caller holds has yielded a prefix of the elements the
\* list had when the iteration was made (its cache then, followed by what its
\* source still held), and once exhausted it has yielded exactly those elements,
\* however the iterations, next and indexing interleave.
C1_Reiteration ==
    \A h \in DOMAIN hs :
        /\ IsPrefix(hs[h].out, hs[h].snap)
        /\ hs[h].done => hs[h].out = hs[h].snap

\* one iteration consumed to its end while the other is half way and the list
\* itself has cached two elements
C1_Witness ==
    /\ Len(hs) = 2
    /\ hs[1].done /\ Len(hs[1].out) = MaxLen
    /\ ~hs[2].done /\ Len(hs[2].out) = 1
    /\ Len(ll[1].generated) = 2
    /\ last.op = "get"

\* C2: l[i] at a valid non-negative position is the i-th element the list was
\* built from, on every call, and it is the value every iteration yields, or
\* has yielded, at position i.
C2_StableGet ==
    (last.op = "get" /\ last.i >= 0 /\ last.i < Len(elems[last.l])) =>
        /\ last.st = "val"
        /\ last.v = elems[last.l][last.i + 1]
        /\ \A h \in DOMAIN hs :
              (hs[h].of = last.l /\ Len(hs[h].out) > last.i) => hs[h].out[last.i + 1] = last.v

C2_Witness ==
    /\ last.op = "get" /\ last.i = MaxLen - 1 /\ Len(elems[1]) = MaxLen
    /\ Len(hs) = 2
    /\ Len(hs[1].out) = MaxLen /\ Len(hs[2].out) = MaxLen

\* C3: every entry of the cache is the element of the list at its position: the
\* value the source produced there or the value last assigned there.
C3_CachePrefix ==
    \A l \in DOMAIN ll :
        \A k \in 1..Len(ll[l].generated) :
            k <= Len(elems[l]) /\ ll[l].generated[k] = elems[l][k]

\* C4: l[i] past the end of a list of n > 0 elements is l[i mod n], the element
\* at i mod n, and 0 on an empty list; it never raises.
C4_Wraparound ==
    (last.op = "get" /\ last.i >= Len(Contents(W, last.l))) =>
        LET n == Len(Contents(W, last.l))
        IN /\ last.st = "val"
           /\ n = 0 => last.v = 0
           /\ n > 0 => /\ last.v = LLGetItem(W, last.l, last.i % n).v
                       /\ last.v = Contents(W, last.l)[(last.i % n) + 1]

C4_Witness ==
    /\ last.op = "get" /\ last.i = MaxLen + 1
    /\ Len(Contents(W, 1)) = MaxLen
    /\ last.v = elems[1][2]
    /\ used.writes = 0 /\ used.negative = 0

\* C5: after l[i] = v at a valid position the list's elements are the former
\* ones with v at i: l[i] returns v, len and == keep it, an iteration made
\* afterwards yields it, and an iteration made before yields what the list had
\* then.
C5_SetPersists ==
    /\ Contents(W, 1) = elems[1]
    /\ (last.op = "set" /\ last.i < Len(elems[1])) =>
           /\ last.st = "val"
           /\ LLGetItem(W, 1, last.i).v = last.j
    /\ (last.op = "get" /\ last.i < Len(elems[1])) => last.v = elems[1][last.i + 1]
    /\ (last.op = "len") => last.v = Len(elems[1])
    /\ \A h \in DOMAIN hs :
          /\ IsPrefix(hs[h].out, hs[h].exp)
          /\ hs[h].done => hs[h].out = hs[h].exp

\* an iteration made before the assignment and one made after it, both
\* exhausted, and a len() after the assignment
C5_Witness ==
    /\ used.writes = 1
    /\ last.op = "len"
    /\ Len(hs) = 2
    /\ hs[1].done /\ hs[1].out = <<1, 2>>
    /\ hs[2].done /\ hs[2].out = <<1, MaxLen + MaxVal + 1>>

\* C6: an exhausted iteration of a + b has yielded the elements of a followed by
\* the elements of b, and len(a + b) is len(a) + len(b), whatever a and b have
\* cached.
C6_Concatenation ==
    /\ \A h \in DOMAIN hs :
          (made[hs[h].of].by = "add" /\ hs[h].done) => hs[h].out = elems[1] \o elems[2]
    /\ (last.op = "len" /\ made[last.l].by = "add") => last.v = Len(elems[1]) + Len(elems[2])

\* C7: an exhausted iteration of l[start::step] has yielded the elements of l at
\* the positions start, start + step, start + 2*step, ... below len(l).
C7_SliceFrom ==
    \A h \in DOMAIN hs :
        (made[hs[h].of].by = "slice" /\ hs[h].done) =>
            hs[h].out = PySlice(elems[made[hs[h].of].src], made[hs[h].of].a1, made[hs[h].of].a2)

\* the positions l[start:stop:step] indexes, for a list of n elements
SlicePositions(n, start, stop, step) ==
    PyRange(start, IF stop >= 0 THEN stop ELSE n + stop, step)

\* what l[p] is on a list with the elements e: the element at p, wrapping around
\* past the end, counting from the end below 0
ElementAt(e, p) ==
    IF p >= 0 THEN (IF e = <<>> THEN 0 ELSE e[(p % Len(e)) + 1])
    ELSE (IF 0 - p <= Len(e) THEN e[Len(e) + p + 1] ELSE 0)

Occurs(shape, x) == \E k \in 0..(2 * (MaxIdx + 3)) : ProducerValue(shape, k) = x

\* C9: on an infinite list with a non-decreasing producer, x in l answers 1
\* exactly when the producer yields x, whatever the list has cached.
C9_Contains ==
    (last.op = "contains") =>
        /\ last.st = "val"
        /\ (last.v = 1) <=> Occurs(it[ll[last.l].raw_object].a1, last.i)

\* C10: an iteration of l.filter(fn) yields, in order and once each, the
\* elements of l that satisfy fn, whatever l has cached.
C10_Filter ==
    \A h \in DOMAIN hs :
        (made[hs[h].of].by = "filter") =>
            LET e == SelectSeq(elems[made[hs[h].of].src],
                               LAMBDA v : Pred(made[hs[h].of].a1, v))
            IN /\ IsPrefix(hs[h].out, e)
               /\ hs[h].done => hs[h].out = e

\* the odd elements of 1, 2, 1, the first of them cached by l before the
\* filter was driven
C10_Witness ==
    /\ Len(ll) = 2 /\ made[2].by = "filter" /\ made[2].a1 = 1
    /\ elems[1] = <<1, 2, 1>>
    /\ Len(ll[1].generated) >= 1
    /\ \E h \in DOMAIN hs : hs[h].done /\ hs[h].out = <<1, 1>>

\* C11: len(l) is the number of elements one whole fresh iteration of l yields,
\* for the iteration run directly before the call and for the one run directly
\* after it, in every state the list can be in.
C11_Length ==
    [][/\ (last.op = "for" /\ last'.op = "len" /\ last'.l = last.l) =>
              last'.v = Len(last.out)
       /\ (last.op = "len" /\ last'.op = "for" /\ last'.l = last.l) =>
              Len(last'.out) = last.v
       /\ (last'.op = "len") =>
              /\ last'.st = "val"
              /\ last'.v = Len(Contents(W, last'.l))
              /\ last'.v = Len(Contents([ll |-> ll', it |-> it'], last'.l))]_vars

\* len() of a list of three elements, one of them assigned to before, no
\* negative position used
C11_Witness ==
    /\ last.op = "len" /\ last.v = MaxLen
    /\ Len(elems[1]) = MaxLen
    /\ used.writes = 1 /\ used.negative = 0
    /\ Contents(W, 1) = elems[1]

\* the values the source of list l has handed out so far, for a producer
Produced(w, l) == w.it[w.ll[l].raw_object].pos

\* C12: l[i], i >= 0, with c values cached: for i < c nothing is pulled from the
\* source and nothing changes; for i >= c exactly i + 1 - c values are pulled
\* and cached, or all the source still has when that is fewer; an infinite
\* source is asked for exactly that many values; and the same l[i] again pulls
\* nothing more.
C12_GetPulls ==
    [][(last'.op = "get" /\ last'.i >= 0) =>
          LET l == last'.l
              i == last'.i
              c == Len(ll[l].generated)
              c2 == Len(ll'[l].generated)
              after == [ll |-> ll', it |-> it']
              again == LLGetItem(after, l, i)
          IN /\ last'.st = "val"
             /\ IsPrefix(ll[l].generated, ll'[l].generated)
             /\ i < c => (ll' = ll /\ it' = it)
             /\ (i >= c /\ ll[l].infinite) =>
                    /\ c2 = i + 1
                    /\ Produced(after, l) = Produced(W, l) + (i + 1 - c)
             /\ (i >= c /\ ~ll[l].infinite) =>
                    /\ Contents(after, l) = Contents(W, l)
                    /\ c2 - c = IF i + 1 <= Len(Contents(W, l))
                                THEN i + 1 - c ELSE Len(Contents(W, l)) - c
             /\ again.w.ll[l].generated = ll'[l].generated
             /\ again.v = last'.v
             /\ ll[l].infinite => Produced(again.w, l) = Produced(after, l)]_vars

\* l[4] on an infinite list: five values cached, five values produced
C12_Witness ==
    /\ last.op = "get" /\ last.i = MaxIdx
    /\ ll[1].infinite
    /\ Len(ll[1].generated) = MaxIdx + 1
    /\ Produced(W, 1) = MaxIdx + 1

\* one of the four kinds of value a list may hold: an integer, a rational or
\* float, a string, or a LazyList of such values
IsCanonical(value) ==
    \/ value.kind \in {"int", "Rational", "float", "str"}
    \/ /\ value.kind = "LazyList"
       /\ \A k \in DOMAIN value.items :
             value.items[k].kind \in {"int", "Rational", "float", "str"}

\* C13: every value in the cache, and every value next(l) or l[i] returns from
\* the cache, is the vyxalify-ed form of the value the source handed out at its
\* position, so none of them is a sympy number.
C13_Canonical ==
    /\ \A k \in 1..Len(ll[1].generated) :
          /\ IsCanonical(ll[1].generated[k])
          /\ ll[1].generated[k] = vyxalify(elems[1][k])
    /\ (last.op \in {"next", "get"} /\ last.st = "val" /\ ll[1].generated # <<>>) =>
          IsCanonical(last.v)

\* C14: vyxalify(value) is an integer, a rational or float, a string, or a
\* LazyList of such values, for every value it takes, and it returns a value
\* that is one of these already as it is.
C14_Closure ==
    (last.op = "vyxalify") =>
        /\ IsCanonical(last.out[1])
        /\ IsCanonical(last.pre[1]) => last.out[1] = last.pre[1]

\* C15: with c = a + b made and its iterations driven any distance, a still has
\* the elements it had before: its cache followed by what its source still
\* holds, which is what a fresh iteration of a, a[i] and len(a) go by.
C15_NoAliasing ==
    (Len(ll) = 3 /\ made[3].by = "add") =>
        /\ Contents(W, 1) = elems[1]
        /\ Contents(W, 2) = elems[2]

\* C16: as long as nothing is assigned, the cache of a list followed by what its
\* source still holds is the elements the list was built from, each once: after
\* l[i] at any position, whole iterations, len and ==.
C16_ReadOnly ==
    \A l \in DOMAIN ll : used.writes = 0 => Contents(W, l) = elems[l]

\* C17: l[-k], 1 <= k <= n, on a list of n elements returns the element at
\* n - k: of the elements the list holds when it is called (its cache, then
\* what its source holds), and, while nothing was assigned, of the elements the
\* list was built from, whatever was cached and indexed before.
C17_FromEnd ==
    [][(last'.op = "get" /\ last'.i < 0) =>
          LET l == last'.l
              k == 0 - last'.i
              e == Contents(W, l)
          IN /\ k <= Len(e) => (last'.st = "val" /\ last'.v = e[Len(e) - k + 1])
             /\ (used.writes = 0 /\ k <= Len(elems[l])) =>
                    (last'.st = "val" /\ last'.v = elems[l][Len(elems[l]) - k + 1])]_vars

\* l[-2] for the second time on a list of two elements, the cache by now twice
\* as long as the list
C17_Witness ==
    /\ last.op = "get" /\ last.i = 0 - 2
    /\ used.negative = 2 /\ used.writes = 0
    /\ Len(elems[1]) = 2
    /\ last.v = elems[1][1]
    /\ Len(ll[1].generated) >= 4

\* C18: the generator l.reversed() returns yields, last element first, the
\* elements l holds (its cache, then what its source holds) at the moment the
\* generator is first driven, assignments made until then included, and stops
\* after the first element.
C18_Reversed ==
    \A h \in DOMAIN hs :
        (hs[h].kind = "reversed") =>
            /\ IsPrefix(hs[h].out, PyReverse(hs[h].snap))
            /\ hs[h].done => hs[h].out = PyReverse(hs[h].snap)

\* reversed() of 1, 2 taken first, then l[1] = 6 assigned, then the generator
\* driven to its end: 6, 1
C18_Witness ==
    \E h \in DOMAIN hs :
        /\ hs[h].kind = "reversed" /\ hs[h].done
        /\ hs[h].exp = <<1, 2>>
        /\ hs[h].out = <<MaxLen + MaxVal + 1, 1>>

\* C19: a next(l) that raises StopIteration leaves the cache as it was, and
\* once next(l) raises StopIteration it raises it for good: no indexing,
\* iteration, len or == on the list leads from a state where next(l) raises
\* StopIteration to a state where next(l) yields a value.
C19_Terminal ==
    [][\A l \in DOMAIN ll :
          /\ (last'.op = "next" /\ last'.l = l /\ last'.st = "stop") =>
                 ll'[l].generated = ll[l].generated
          /\ (LLNext(W, l).st = "stop") =>
                 LLNext([ll |-> ll', it |-> it'], l).st = "stop"]_vars

\* C20: l[i] = v with i at or past the number n of elements l holds drives the
\* source to its end, so that the cache holds all n elements, and then raises
\* IndexError: no element is replaced and none is added, so a fresh iteration
\* yields what it yielded before.  While no negative position was used, n is
\* the length of the container the list was built from.
C20_SetPastEnd ==
    [][(last'.op = "set" /\ last'.i >= 0) =>
          LET l == last'.l
              e == Contents(W, l)
          IN /\ last'.i >= Len(e) =>
                    /\ last'.st = "err"
                    /\ ll'[l].generated = e
                    /\ Contents([ll |-> ll', it |-> it'], l) = e
                    /\ elems' = elems
             /\ (used.negative = 0 /\ last'.i >= Len(elems[l])) =>
                    (last'.st = "err" /\ ll'[l].generated = elems[l])]_vars

\* l[3] = v on a list of three elements, one of them cached before: IndexError,
\* the three elements in the cache
C20_Witness ==
    /\ last.op = "set" /\ last.st = "err" /\ last.i = MaxLen
    /\ Len(elems[1]) = MaxLen
    /\ ll[1].generated = elems[1]
    /\ used.negative = 0

====
